---- MODULE Spec2Model ----
(***************************************************************************)
(* Model of the security layer of Intelligent-Form-Builder-v2:             *)
(*   - middleware.ts: blocked IP, suspicious user agent, rate limit, CSRF, *)
(*     authentication, security headers, and the route handlers behind it  *)
(*     (GET /api/csrf, GET /api/forms/[id]);                               *)
(*   - lib/security: CSRFProtection, and CSRFService;                      *)
(*   - POST /api/submissions and sanitizeInput;                            *)
(*   - lib/form-exporter: FormExporter.exportAsHTML;                       *)
(*   - lib/security: RateLimiter;                                          *)
(*   - lib/auto-fill: AutoFillService.                                     *)
(* Time is Date.now() in milliseconds.  Paths are sequences of segments.   *)
(***************************************************************************)
EXTENDS Integers, Sequences, FiniteSets, TLC

VARIABLES
    now,              \* Date.now()
    rateLimitMap,     \* middleware.ts: Map key -> {count, resetTime}
    csrfTokens,       \* middleware.ts: Map `${sessionId}:${token}` -> expires
    routeCsrfTokens,  \* app/api/csrf/route.ts: its own Map, same key shape
    nextToken,        \* crypto.randomBytes(32): the next fresh token
    res,              \* the last request and the response it got
    window,           \* history: per key, the current window's start and calls
    underTest,        \* which token store or rate limiter a run's calls go to
    tokens,           \* CSRFProtection.tokens: key -> {token, expires, used}
    svcTokens,        \* CSRFService.tokens: session -> {token, expires}
    csrfRes,          \* the last call on a CSRF token store and its result
    genTime,          \* history: when each token was generated
    accepted,         \* history: how often validateToken returned true, per key
    submissions,      \* submissions table: the rows inserted, in order
    subRes,           \* the last POST /api/submissions and its response
    exported,         \* FormExporter: the form, the options and the document
    limits,           \* RateLimiter.limits: key -> {count, resetTime, blocked}
    limRes,           \* the last call on the RateLimiter and its result
    limCalls,         \* history: the number of calls made on the RateLimiter
    blockedUntil,     \* history: per ip, when its latest-ending blockIP ends
    cepCache,         \* AutoFillService.cepCache: CEP -> the API's answer
    cnpjCache,        \* AutoFillService.cnpjCache: CNPJ -> the API's answer
    requestQueue,     \* AutoFillService.requestQueue: key -> pending request
    inFlight,         \* the network requests sent and not yet answered
    nextRequest,      \* the number the next network request gets
    answered,         \* history: numbers answered by the API since clearCache
    autoRes,          \* the last fetchCEPData/fetchCNPJData call, how it was served
    sessions,         \* the sessions table: the tokens of its rows
    loggedOut,        \* history: the tokens POST /api/auth/logout has handled
    authRes           \* the last answer of the login or the logout handler

mwVars == <<rateLimitMap, routeCsrfTokens, res, window>>
csrfVars == <<underTest, tokens, svcTokens, csrfRes, genTime, accepted>>
subVars == <<submissions, subRes>>
limiterVars == <<limits, limRes, limCalls, blockedUntil>>
autoVars ==
    <<cepCache, cnpjCache, requestQueue, inFlight, nextRequest, answered,
      autoRes>>
authVars == <<sessions, loggedOut, authRes>>
libVars == <<exported, limiterVars, autoVars, authVars>>

----------------------------------------------------------------------------
(* Bounds *)

\* Spec: the whole middleware, few calls per rate-limit window
MaxTicks == 1
MaxCalls == 1
MaxTokens == 1
\* SpecRate: one client against the rate limit, enough calls to exceed it
MaxRateTicks == 2
MaxRateCalls == 12
\* SpecCsrf: the CSRF token stores
MaxCsrfTicks == 3
MaxCsrfTokens == 2
\* SpecSub: POST /api/submissions
MaxRows == 2

----------------------------------------------------------------------------
(* Program constants *)

RateLimitWindow == 60000
AuthLimit == 3
DefaultLimit == 10
MinUserAgentLength == 10
RouteTokenExpiry == 3600000

\* README "Rate Limiting por IP" and RateLimiter.configs
DocSubmissionsLimit == 5
DocLoginLimit == 3
DocLoginWindow == 900000

TickStep == RateLimitWindow \div 2

NoEntry == [none |-> TRUE]
NoToken == 0
NoCookie == "none"
NoRes == [none |-> TRUE]

----------------------------------------------------------------------------
(* Requests *)

SubmissionsPath == <<"api", "submissions">>
LoginPath == <<"api", "auth", "login">>
FormPath == <<"api", "forms", "f1">>
DashboardPath == <<"api", "dashboard", "recent-submissions">>
CsrfPath == <<"api", "csrf">>

Paths == {SubmissionsPath, LoginPath, FormPath, DashboardPath, CsrfPath}

\* getClientIP's result: an ordinary address, a listed one, no address at all
GoodIP == "203.0.113.7"
IPs == {GoodIP, "0.0.0.0", "unknown"}

\* Map.get and Map.set of a map held as a function on the keys present
EmptyMap == [k \in {} |-> 0]
MapGet(map, key) == IF key \in DOMAIN map THEN map[key] ELSE [none |-> TRUE]
MapSet(map, key, value) ==
    [k \in DOMAIN map \cup {key} |-> IF k = key THEN value ELSE map[k]]
MapDelete(map, key) == [k \in DOMAIN map \ {key} |-> map[k]]

\* a user agent: its length and whether one of the patterns matches it
Browser == [len |-> 70, pattern |-> FALSE]
Curl == [len |-> 11, pattern |-> TRUE]
Short == [len |-> 4, pattern |-> FALSE]
UserAgents == {Browser, Curl, Short}

\* the auth-token cookie: absent, a JWT signed with JWT_SECRET and not
\* expired, a JWT that jwt.verify rejects (another signature, or expired)
Cookies == {NoCookie, "jwt_ok", "jwt_badsig"}

Tokens == 1..MaxTokens

Methods == {"GET", "POST"}

\* forms table: id -> status and fields; a string is a sequence of tokens
FormsTable ==
    [f1 |-> [status |-> "active",
             fields |-> <<[id |-> <<"name">>, required |-> TRUE],
                          [id |-> <<"note">>, required |-> FALSE]>>],
     f2 |-> [status |-> "draft",
             fields |-> <<[id |-> <<"name">>, required |-> TRUE]>>]]

StartsWith(path, route) ==
    /\ Len(path) >= Len(route)
    /\ SubSeq(path, 1, Len(route)) = route

\* endpoint.includes("/auth/")
IncludesAuth(path) ==
    \E i \in 1..(Len(path) - 1) : path[i] = "auth"

PROTECTED_ROUTES == {<<"api", "forms">>, <<"api", "dashboard">>, <<"api", "export">>}
CSRF_PROTECTED_ROUTES ==
    {<<"api", "forms">>, <<"api", "submissions">>, <<"api", "auth", "login">>,
     <<"api", "auth", "register">>}
RATE_LIMITED_ROUTES ==
    {<<"api", "submissions">>, <<"api", "forms">>, <<"api", "auth", "login">>,
     <<"api", "auth", "register">>}

isIPBlocked(ip) ==
    ip \in {"0.0.0.0"} \/ ip = "unknown" \/ ip = ""

detectSuspiciousActivity(ua) ==
    \/ ua.len < MinUserAgentLength
    \/ ua.pattern

jwtVerify(cookie) == cookie = "jwt_ok"

----------------------------------------------------------------------------
(* checkRateLimit *)

rateLimitOf(endpoint) ==
    IF IncludesAuth(endpoint) THEN AuthLimit ELSE DefaultLimit

\* checkRateLimit comparing the count before it is incremented
checkRateLimitLate(entry, endpoint, t) ==
    IF entry = NoEntry \/ t >= entry.resetTime
    THEN [entry |-> [count |-> 1, resetTime |-> t + RateLimitWindow],
          allowed |-> TRUE]
    ELSE [entry |-> [count |-> entry.count + 1, resetTime |-> entry.resetTime],
          allowed |-> ~(entry.count > rateLimitOf(endpoint))]

\* the entry checkRateLimit leaves under the key, and what it returns
checkRateLimit(entry, endpoint, t) ==
    IF entry = NoEntry \/ t >= entry.resetTime
    THEN [entry |-> [count |-> 1, resetTime |-> t + RateLimitWindow],
          allowed |-> TRUE]
    ELSE [entry |-> [count |-> entry.count + 1, resetTime |-> entry.resetTime],
          allowed |-> ~(entry.count + 1 > rateLimitOf(endpoint))]

----------------------------------------------------------------------------
(* validateCSRFToken *)

CsrfKey(sessionId, token) == <<sessionId, token>>

\* what validateCSRFToken returns and the map it leaves
validateCSRFToken(store, token, sessionId, t) ==
    LET key == CsrfKey(sessionId, token) IN
    IF token = NoToken
    THEN [ok |-> FALSE, store |-> store]
    ELSE IF MapGet(store, key) = NoEntry \/ t > store[key].expires
         THEN [ok |-> FALSE, store |-> MapDelete(store, key)]
         ELSE [ok |-> TRUE, store |-> store]

----------------------------------------------------------------------------
(* middleware *)

AnyRoute(routes, path) == \E route \in routes : StartsWith(path, route)

isMutation(method) == method \in {"POST", "PUT", "DELETE"}

SecurityHeaders ==
    {"X-Content-Type-Options: nosniff", "X-Frame-Options: DENY",
     "X-XSS-Protection: 1; mode=block", "Referrer-Policy",
     "Permissions-Policy", "Content-Security-Policy"}

UserHeaders == {"x-user-id", "x-user-email", "x-user-role"}

Reject(status, error, headers) ==
    [next |-> FALSE, status |-> status, error |-> error, headers |-> headers]

Pass(headers) ==
    [next |-> TRUE, status |-> 200, error |-> "", headers |-> headers]

\* authentication that takes any auth-token cookie without verifying it
authenticateUnverified(req) ==
    IF AnyRoute(PROTECTED_ROUTES, req.path)
    THEN IF req.cookie = NoCookie
         THEN Reject(401, "Authentication required", {})
         ELSE Pass(UserHeaders)
    ELSE Pass(SecurityHeaders)

\* step 5 and 6 of middleware: authentication, then the security headers
authenticate(req) ==
    IF AnyRoute(PROTECTED_ROUTES, req.path)
    THEN IF req.cookie = NoCookie
         THEN Reject(401, "Authentication required", {})
         ELSE IF jwtVerify(req.cookie)
              THEN Pass(UserHeaders)
              ELSE Reject(401, "Invalid token", {})
    ELSE Pass(SecurityHeaders)

\* the middleware's answer to req, given what checkRateLimit returned (rl)
\* and what validateCSRFToken returned (csrfOk)
middleware(req, rl, csrfOk) ==
    IF isIPBlocked(req.ip)
    THEN Reject(403, "Access denied", {})
    ELSE IF detectSuspiciousActivity(req.ua)
    THEN Reject(403, "Suspicious activity detected", {})
    ELSE IF AnyRoute(RATE_LIMITED_ROUTES, req.path) /\ ~rl.allowed
    THEN Reject(429, "Rate limit exceeded", {"Retry-After"})
    ELSE IF isMutation(req.method) /\ AnyRoute(CSRF_PROTECTED_ROUTES, req.path)
            /\ req.csrf = NoToken
    THEN Reject(403, "CSRF token required", {})
    ELSE IF isMutation(req.method) /\ AnyRoute(CSRF_PROTECTED_ROUTES, req.path)
            /\ ~csrfOk
    THEN Reject(403, "Invalid CSRF token", {})
    ELSE authenticate(req)

\* whether middleware gets as far as calling checkRateLimit
ReachesRateLimit(req) ==
    /\ ~isIPBlocked(req.ip)
    /\ ~detectSuspiciousActivity(req.ua)
    /\ AnyRoute(RATE_LIMITED_ROUTES, req.path)

\* whether middleware gets as far as calling validateCSRFToken
ReachesCsrfValidation(req, rl) ==
    /\ ~isIPBlocked(req.ip)
    /\ ~detectSuspiciousActivity(req.ua)
    /\ AnyRoute(RATE_LIMITED_ROUTES, req.path) => rl.allowed
    /\ isMutation(req.method)
    /\ AnyRoute(CSRF_PROTECTED_ROUTES, req.path)
    /\ req.csrf # NoToken

----------------------------------------------------------------------------
(* route handlers *)

RouteMethods(path) ==
    IF path = CsrfPath THEN {"GET"}
    ELSE IF path = FormPath THEN {"GET", "PUT", "DELETE"}
    ELSE IF path = DashboardPath THEN {"GET"}
    ELSE IF path = SubmissionsPath THEN {"GET", "POST"}
    ELSE IF path = LoginPath THEN {"POST"}
    ELSE {}

\* GET /api/forms/[id]
getForm(path) ==
    LET id == path[3] IN
    IF id \in DOMAIN FormsTable
    THEN [status |-> 200, body |-> [form |-> id, status |-> FormsTable[id].status]]
    ELSE [status |-> 404, body |-> [error |-> "Form not found"]]

\* the response of the route handler behind the middleware
handler(req) ==
    IF req.method \notin RouteMethods(req.path)
    THEN [status |-> 405, body |-> [error |-> "Method Not Allowed"]]
    ELSE IF req.path = CsrfPath
    THEN [status |-> 200, body |-> [token |-> nextToken]]
    ELSE IF req.path = FormPath /\ req.method = "GET"
    THEN getForm(req.path)
    ELSE [status |-> 200, body |-> [handled |-> TRUE]]

\* GET /api/csrf stores the token it generated in the route's own map
csrfRouteStore(store, token, t) ==
    MapSet(store, CsrfKey("anonymous", token),
           [token |-> token, expires |-> t + RouteTokenExpiry])

----------------------------------------------------------------------------
(* the history of each key's window *)

windowAfter(w, allowed, t) ==
    IF w = NoEntry \/ t >= w.start + RateLimitWindow
    THEN [start |-> t, calls |-> 1, allowed |-> IF allowed THEN 1 ELSE 0]
    ELSE [start |-> w.start, calls |-> w.calls + 1,
          allowed |-> w.allowed + (IF allowed THEN 1 ELSE 0)]

----------------------------------------------------------------------------

\* the requests sent: a header the middleware never reads for a request is
\* left out of it (x-csrf-token on a GET, the cookie off the protected routes)
Requests ==
    {r \in [method : Methods, path : Paths, ip : IPs, ua : UserAgents,
            csrf : {NoToken} \cup Tokens, cookie : Cookies] :
        /\ ~isMutation(r.method) => r.csrf = NoToken
        /\ ~AnyRoute(PROTECTED_ROUTES, r.path) => r.cookie = NoCookie
        /\ (isIPBlocked(r.ip) \/ detectSuspiciousActivity(r.ua)) =>
              (r.csrf = NoToken /\ r.cookie = NoCookie /\ r.method = "GET")
        /\ isIPBlocked(r.ip) => r.ua = Browser}

\* the requests of the rate-limit runs: one client on two limited routes
RateRequests ==
    {r \in Requests :
        /\ r.ip = GoodIP /\ r.ua = Browser
        /\ r.path \in {SubmissionsPath, LoginPath}}

RECURSIVE SumCounts(_)
SumCounts(map) ==
    IF DOMAIN map = {} THEN 0
    ELSE LET k == CHOOSE x \in DOMAIN map : TRUE IN
         map[k].count + SumCounts(MapDelete(map, k))

\* FormExporter before any export
ExporterInit == exported = NoRes

\* RateLimiter before any call
LimiterInit ==
    /\ limits = EmptyMap
    /\ limRes = NoRes
    /\ limCalls = 0
    /\ blockedUntil = EmptyMap

\* AutoFillService before any call
AutoFillInit ==
    /\ cepCache = EmptyMap
    /\ cnpjCache = EmptyMap
    /\ requestQueue = EmptyMap
    /\ inFlight = {}
    /\ nextRequest = 1
    /\ answered = {}
    /\ autoRes = NoRes

\* the sessions table before any login
AuthInit ==
    /\ sessions = {}
    /\ loggedOut = {}
    /\ authRes = NoRes

\* the library objects and the sessions table before any call on them
LibInit ==
    /\ ExporterInit
    /\ LimiterInit
    /\ AutoFillInit
    /\ AuthInit

\* the server's module state at start
ServerInit ==
    /\ now = 0
    /\ rateLimitMap = EmptyMap
    /\ csrfTokens = EmptyMap
    /\ routeCsrfTokens = EmptyMap
    /\ nextToken = 1
    /\ res = NoRes
    /\ window = EmptyMap
    /\ underTest = "middleware"
    /\ tokens = EmptyMap
    /\ svcTokens = EmptyMap
    /\ csrfRes = NoRes
    /\ genTime = EmptyMap
    /\ accepted = EmptyMap
    /\ submissions = <<>>
    /\ subRes = NoRes

Init == ServerInit /\ LibInit

\* `${ip}:${endpoint}`, ip and endpoint being sequences of pieces of text
RateLimitKey(ip, endpoint) == ip \o <<":">> \o endpoint

Request(req) ==
    LET key == RateLimitKey(<<req.ip>>, req.path) IN
    \E rl \in {checkRateLimit(MapGet(rateLimitMap, key), req.path, now)},
       cv \in {validateCSRFToken(csrfTokens, req.csrf, req.ip, now)} :
    \E mw \in {middleware(req, rl, cv.ok)}, h \in {handler(req)},
       counted \in {ReachesRateLimit(req)} :
    \E issues \in {mw.next /\ req.path = CsrfPath /\ req.method = "GET"} :
    /\ issues => nextToken <= MaxTokens
    /\ rateLimitMap' =
          IF counted THEN MapSet(rateLimitMap, key, rl.entry) ELSE rateLimitMap
    /\ window' =
          IF counted
          THEN MapSet(window, key,
                      windowAfter(MapGet(window, key), rl.allowed, now))
          ELSE window
    /\ csrfTokens' =
          IF ReachesCsrfValidation(req, rl) THEN cv.store ELSE csrfTokens
    /\ routeCsrfTokens' =
          IF issues THEN csrfRouteStore(routeCsrfTokens, nextToken, now)
          ELSE routeCsrfTokens
    /\ nextToken' = IF issues THEN nextToken + 1 ELSE nextToken
    /\ res' = [req |-> req,
               limited |-> IF counted
                           THEN (IF rl.allowed THEN "allowed" ELSE "denied")
                           ELSE "skipped",
               next |-> mw.next,
               status |-> IF mw.next THEN h.status ELSE mw.status,
               error |-> mw.error,
               headers |-> mw.headers,
               body |-> IF mw.next THEN h.body ELSE [error |-> mw.error]]
    /\ UNCHANGED <<now, csrfVars, subVars, libVars>>

\* time passes
Tick(d) ==
    /\ now' = now + d
    /\ UNCHANGED <<mwVars, csrfTokens, nextToken, csrfVars, subVars, libVars>>

vars == <<now, mwVars, csrfTokens, nextToken, csrfVars, subVars, libVars>>

Next ==
    \/ \E req \in Requests :
          /\ Request(req)
          /\ SumCounts(rateLimitMap') <= MaxCalls
    \/ Tick(TickStep) /\ now' <= MaxTicks * TickStep

Spec == Init /\ [][Next]_vars

NextRate ==
    \/ \E req \in RateRequests :
          /\ Request(req)
          /\ SumCounts(rateLimitMap') <= MaxRateCalls
    \/ Tick(TickStep) /\ now' <= MaxRateTicks * TickStep

SpecRate == Init /\ [][NextRate]_vars

----------------------------------------------------------------------------
(* Claims about the middleware *)

ResKey == RateLimitKey(<<res.req.ip>>, res.req.path)

\* the endpoint of a key of the middleware, whose ip is one piece of text
EndpointOf(key) == SubSeq(key, 3, Len(key))

\* the request of res reached checkRateLimit
Counted == res # NoRes /\ res.limited # "skipped"

\* C1: within one window of a key (the 60,000 ms from the first call that
\* found no entry or an expired one) at most limit calls of checkRateLimit
\* return allowed, limit being 3 for a path containing /auth/ and 10
\* otherwise, and every further call before resetTime returns not allowed.
C1_WindowLimit ==
    /\ \A k \in DOMAIN window :
          window[k].allowed <= (IF IncludesAuth(EndpointOf(k)) THEN 3 ELSE 10)
    /\ Counted =>
          (res.limited = "denied" <=>
              window[ResKey].calls > (IF IncludesAuth(res.req.path) THEN 3 ELSE 10))

C1_Witness ==
    /\ Counted
    /\ res.req.path = SubmissionsPath
    /\ res.limited = "denied"
    /\ window[ResKey].allowed = 10
    /\ \E k \in DOMAIN window : EndpointOf(k) = LoginPath /\ window[k].allowed = 1

\* C2: the 6th request of one IP to /api/submissions inside a one-minute
\* window is rejected with 429.
C2_SubmissionsLimit ==
    (/\ Counted
     /\ res.req.path = SubmissionsPath
     /\ window[ResKey].calls > DocSubmissionsLimit)
        => res.status = 429

\* C3: once an IP has made 3 requests to /api/auth/login, a further request
\* is rejected with 429 until 15 minutes have passed since the first request
\* of the window.
C3_LoginWindow ==
    [][\A k \in DOMAIN window :
          (/\ EndpointOf(k) = LoginPath
           /\ window[k].calls >= DocLoginLimit
           /\ now < window[k].start + DocLoginWindow
           /\ window'[k] # window[k])
              => res'.status = 429]_vars

\* C4: an unauthenticated visitor with an ordinary browser, inside the rate
\* limit, gets the form from GET /api/forms/{id}: the request passes the
\* middleware and the handler returns the form.
C4_PublicFormLoads ==
    (/\ res # NoRes
     /\ res.req = [method |-> "GET", path |-> FormPath, ip |-> GoodIP,
                   ua |-> Browser, csrf |-> NoToken, cookie |-> NoCookie]
     /\ res.limited = "allowed")
        => /\ res.next
           /\ res.status = 200
           /\ res.body = [form |-> "f1", status |-> "active"]

\* the token was issued by GET /api/csrf and has not expired
IssuedUnexpired(token) ==
    /\ CsrfKey("anonymous", token) \in DOMAIN routeCsrfTokens
    /\ now <= routeCsrfTokens[CsrfKey("anonymous", token)].expires

\* C5: a POST to /api/submissions carrying in x-csrf-token an unexpired token
\* that GET /api/csrf issued is not answered with 403 "Invalid CSRF token".
\* (Only a client that passes the middleware is issued a token, and the
\* request set has one such client, so the token is the client's own.)
C5_IssuedTokenAccepted ==
    (/\ res # NoRes
     /\ res.req.method = "POST"
     /\ res.req.path = SubmissionsPath
     /\ res.req.csrf # NoToken
     /\ IssuedUnexpired(res.req.csrf))
        => res.error # "Invalid CSRF token"

Protected == res # NoRes /\ AnyRoute(PROTECTED_ROUTES, res.req.path)

\* C6 as stated: a request to a protected route is passed on only with an
\* auth-token cookie that verifies; in every other case the answer is 401.
C6_Only401 ==
    Protected =>
        /\ res.next => jwtVerify(res.req.cookie)
        /\ ~jwtVerify(res.req.cookie) => (~res.next /\ res.status = 401)

\* C6 amended: a request to a protected route is passed on only with an
\* auth-token cookie that verifies; without one the handler never runs, and
\* the answer is 401 when the request gets as far as the authentication
\* step, 403 or 429 when an earlier check (blocked IP, suspicious user
\* agent, rate limit, CSRF) rejects it first.
C6_ProtectedNeedsJwt ==
    Protected =>
        /\ res.next => jwtVerify(res.req.cookie)
        /\ ~jwtVerify(res.req.cookie) =>
              /\ ~res.next
              /\ \/ /\ res.status = 401
                    /\ res.error \in {"Authentication required", "Invalid token"}
                 \/ /\ res.status = 403
                    /\ res.error \in {"Access denied", "Suspicious activity detected",
                                      "CSRF token required", "Invalid CSRF token"}
                 \/ /\ res.status = 429
                    /\ res.limited = "denied"
              /\ (/\ res.req.ip = GoodIP
                  /\ res.req.ua = Browser
                  /\ res.limited # "denied"
                  /\ res.req.method = "GET") => res.status = 401

C6_Witness ==
    /\ Protected
    /\ res.req.cookie = "jwt_badsig"
    /\ res.req.ip = GoodIP /\ res.req.ua = Browser
    /\ res.status = 401
    /\ res.error = "Invalid token"

\* C7: every response of the middleware carries X-Content-Type-Options,
\* X-Frame-Options, X-XSS-Protection and a Content-Security-Policy.
C7_SecurityHeaders ==
    res # NoRes =>
        {"X-Content-Type-Options: nosniff", "X-Frame-Options: DENY",
         "X-XSS-Protection: 1; mode=block", "Content-Security-Policy"}
            \subseteq res.headers

----------------------------------------------------------------------------
(* CSRFProtection (lib/security) *)

TOKEN_EXPIRY == 3600000
MAX_TOKENS_PER_SESSION == 5

\* a session id is the sequence of its pieces between colons
Sessions == {<<"anonymous">>, <<"s1">>}

\* cleanupExpiredTokens() is called without a session: every session's tokens
AllSessions == <<>>

\* a string that is not 64 characters long
MalformedToken == 0 - 1

\* !token || typeof token !== "string" || token.length !== 64
WellFormed(token) == token # NoToken /\ token # MalformedToken

\* key.startsWith(`${sessionId}:`)
OfSession(key, sessionId) ==
    /\ Len(sessionId) <= Len(key[1])
    /\ SubSeq(key[1], 1, Len(sessionId)) = sessionId

constantTimeCompare(a, b) == a = b

cleanupExpiredTokens(store, sessionId, t) ==
    LET shouldClean(k) == t > store[k].expires \/ store[k].used
        removed ==
            {k \in DOMAIN store :
                /\ shouldClean(k)
                /\ sessionId # AllSessions => OfSession(k, sessionId)}
    IN [k \in DOMAIN store \ removed |-> store[k]]

\* the store generateToken leaves, token being the 32 random bytes drawn
generateToken(store, sessionId, token, t) ==
    LET cleaned == cleanupExpiredTokens(store, sessionId, t)
        sessionTokens == {k \in DOMAIN cleaned : OfSession(k, sessionId)}
        \* sort by expires is stable: among equals the first inserted
        oldestKey ==
            CHOOSE k \in sessionTokens :
                \A j \in sessionTokens :
                    \/ cleaned[k].expires < cleaned[j].expires
                    \/ cleaned[k].expires = cleaned[j].expires /\ k[2] <= j[2]
        trimmed ==
            IF Cardinality(sessionTokens) >= MAX_TOKENS_PER_SESSION
            THEN MapDelete(cleaned, oldestKey)
            ELSE cleaned
    IN MapSet(trimmed, CsrfKey(sessionId, token),
              [token |-> token, expires |-> t + TOKEN_EXPIRY, used |-> FALSE])

\* validateToken that skips the expiry check
validateTokenNoExpiry(store, token, sessionId, t) ==
    LET key == CsrfKey(sessionId, token)
        storedToken == MapGet(store, key)
    IN
    IF ~WellFormed(token) THEN [ret |-> FALSE, store |-> store]
    ELSE IF storedToken = NoEntry THEN [ret |-> FALSE, store |-> store]
    ELSE IF storedToken.used THEN [ret |-> FALSE, store |-> store]
    ELSE [ret |-> constantTimeCompare(token, storedToken.token),
          store |-> MapSet(store, key, [storedToken EXCEPT !.used = TRUE])]

\* validateToken that never marks a token as used
validateTokenReplay(store, token, sessionId, t) ==
    LET key == CsrfKey(sessionId, token)
        storedToken == MapGet(store, key)
    IN
    IF ~WellFormed(token) THEN [ret |-> FALSE, store |-> store]
    ELSE IF storedToken = NoEntry THEN [ret |-> FALSE, store |-> store]
    ELSE IF t > storedToken.expires
    THEN [ret |-> FALSE, store |-> MapDelete(store, key)]
    ELSE IF storedToken.used THEN [ret |-> FALSE, store |-> store]
    ELSE [ret |-> constantTimeCompare(token, storedToken.token),
          store |-> store]

\* what validateToken returns and the store it leaves
validateToken(store, token, sessionId, t) ==
    LET key == CsrfKey(sessionId, token)
        storedToken == MapGet(store, key)
    IN
    IF ~WellFormed(token) THEN [ret |-> FALSE, store |-> store]
    ELSE IF storedToken = NoEntry THEN [ret |-> FALSE, store |-> store]
    ELSE IF t > storedToken.expires
    THEN [ret |-> FALSE, store |-> MapDelete(store, key)]
    ELSE IF storedToken.used THEN [ret |-> FALSE, store |-> store]
    ELSE [ret |-> constantTimeCompare(token, storedToken.token),
          store |-> MapSet(store, key, [storedToken EXCEPT !.used = TRUE])]

revokeSessionTokens(store, sessionId) ==
    [k \in {j \in DOMAIN store : ~OfSession(j, sessionId)} |-> store[k]]

\* the entry a validation looks up was generated more than an hour before
MetExpired(entry) ==
    /\ entry # NoEntry
    /\ now > genTime[entry.token] + 3600000

CsrfCall(op, sessionId, token, ret, met) ==
    [op |-> op, sessionId |-> sessionId, token |-> token, ret |-> ret,
     at |-> now, metExpired |-> met]

otherVars == <<now, mwVars, csrfTokens, subVars, libVars>>

Generate(sessionId) ==
    /\ underTest = "CSRFProtection"
    /\ tokens' = generateToken(tokens, sessionId, nextToken, now)
    /\ nextToken' = nextToken + 1
    /\ genTime' = MapSet(genTime, nextToken, now)
    /\ csrfRes' = CsrfCall("generateToken", sessionId, nextToken, TRUE, FALSE)
    /\ UNCHANGED <<otherVars, underTest, svcTokens, accepted>>

Validate(token, sessionId) ==
    /\ underTest = "CSRFProtection"
    /\ \E v \in {validateToken(tokens, token, sessionId, now)} :
          /\ tokens' = v.store
          /\ csrfRes' =
                CsrfCall("validateToken", sessionId, token, v.ret,
                         WellFormed(token)
                            /\ MetExpired(MapGet(tokens, CsrfKey(sessionId, token))))
          /\ accepted' =
                IF v.ret
                THEN MapSet(accepted, CsrfKey(sessionId, token),
                            IF CsrfKey(sessionId, token) \in DOMAIN accepted
                            THEN accepted[CsrfKey(sessionId, token)] + 1
                            ELSE 1)
                ELSE accepted
    /\ UNCHANGED <<otherVars, underTest, svcTokens, nextToken, genTime>>

Cleanup ==
    /\ underTest = "CSRFProtection"
    /\ tokens' = cleanupExpiredTokens(tokens, AllSessions, now)
    /\ csrfRes' = CsrfCall("cleanup", AllSessions, NoToken, TRUE, FALSE)
    /\ UNCHANGED <<otherVars, underTest, svcTokens, nextToken, genTime, accepted>>

Revoke(sessionId) ==
    /\ underTest = "CSRFProtection"
    /\ tokens' = revokeSessionTokens(tokens, sessionId)
    /\ csrfRes' = CsrfCall("revokeSessionTokens", sessionId, NoToken, TRUE, FALSE)
    /\ UNCHANGED <<otherVars, underTest, svcTokens, nextToken, genTime, accepted>>

----------------------------------------------------------------------------
(* CSRFService *)

SERVICE_TOKEN_EXPIRY == 60 * 60 * 1000

\* sessionId || "anonymous"
svcKey(sessionId) == IF sessionId = <<>> THEN <<"anonymous">> ELSE sessionId

svcCleanupExpiredTokens(store, t) ==
    [k \in {j \in DOMAIN store : ~(t > store[j].expires)} |-> store[k]]

svcGenerateToken(store, sessionId, token, t) ==
    svcCleanupExpiredTokens(
        MapSet(store, svcKey(sessionId),
               [token |-> token, expires |-> t + SERVICE_TOKEN_EXPIRY]),
        t)

svcValidateToken(store, token, sessionId, t) ==
    LET key == svcKey(sessionId)
        storedToken == MapGet(store, key)
    IN
    IF token = NoToken THEN [ret |-> FALSE, store |-> store]
    ELSE IF storedToken = NoEntry THEN [ret |-> FALSE, store |-> store]
    ELSE IF t > storedToken.expires
    THEN [ret |-> FALSE, store |-> MapDelete(store, key)]
    ELSE [ret |-> constantTimeCompare(token, storedToken.token),
          store |-> store]

SvcGenerate(sessionId) ==
    /\ underTest = "CSRFService"
    /\ svcTokens' = svcGenerateToken(svcTokens, sessionId, nextToken, now)
    /\ nextToken' = nextToken + 1
    /\ genTime' = MapSet(genTime, nextToken, now)
    /\ csrfRes' = CsrfCall("generateToken", sessionId, nextToken, TRUE, FALSE)
    /\ UNCHANGED <<otherVars, underTest, tokens, accepted>>

SvcValidate(token, sessionId) ==
    /\ underTest = "CSRFService"
    /\ \E v \in {svcValidateToken(svcTokens, token, sessionId, now)} :
          /\ svcTokens' = v.store
          /\ csrfRes' =
                CsrfCall("validateToken", sessionId, token, v.ret,
                         token # NoToken
                            /\ MetExpired(MapGet(svcTokens, svcKey(sessionId))))
    /\ UNCHANGED <<otherVars, underTest, tokens, nextToken, genTime, accepted>>

SvcRevoke(sessionId) ==
    /\ underTest = "CSRFService"
    /\ svcTokens' = MapDelete(svcTokens, svcKey(sessionId))
    /\ csrfRes' = CsrfCall("revokeToken", sessionId, NoToken, TRUE, FALSE)
    /\ UNCHANGED <<otherVars, underTest, tokens, nextToken, genTime, accepted>>

SvcRevokeAll ==
    /\ underTest = "CSRFService"
    /\ svcTokens' = EmptyMap
    /\ csrfRes' = CsrfCall("revokeAllTokens", AllSessions, NoToken, TRUE, FALSE)
    /\ UNCHANGED <<otherVars, underTest, tokens, nextToken, genTime, accepted>>

\* the middleware's validateCSRFToken called on its map
MwValidate(token, sessionId) ==
    /\ underTest = "middleware"
    /\ \E v \in {validateCSRFToken(csrfTokens, token, sessionId, now)} :
          /\ csrfTokens' = v.store
          /\ csrfRes' =
                CsrfCall("validateToken", sessionId, token, v.ok,
                         token # NoToken
                            /\ MetExpired(MapGet(csrfTokens, CsrfKey(sessionId, token))))
    /\ UNCHANGED <<now, mwVars, subVars, libVars, underTest, tokens, svcTokens,
                   nextToken, genTime, accepted>>

----------------------------------------------------------------------------

CsrfInputs == {NoToken, MalformedToken} \cup (1..MaxCsrfTokens)

InitCsrf ==
    /\ now = 0
    /\ rateLimitMap = EmptyMap
    /\ csrfTokens = EmptyMap
    /\ routeCsrfTokens = EmptyMap
    /\ nextToken = 1
    /\ res = NoRes
    /\ window = EmptyMap
    /\ underTest \in {"CSRFProtection", "CSRFService", "middleware"}
    /\ tokens = EmptyMap
    /\ svcTokens = EmptyMap
    /\ csrfRes = NoRes
    /\ genTime = EmptyMap
    /\ accepted = EmptyMap
    /\ submissions = <<>>
    /\ subRes = NoRes
    /\ LibInit

NextCsrf ==
    \/ \E sessionId \in Sessions :
          Generate(sessionId) /\ nextToken <= MaxCsrfTokens
    \/ \E token \in CsrfInputs, sessionId \in Sessions :
          Validate(token, sessionId)
    \/ Cleanup
    \/ \E sessionId \in Sessions : Revoke(sessionId)
    \/ \E sessionId \in Sessions :
          SvcGenerate(sessionId) /\ nextToken <= MaxCsrfTokens
    \/ \E token \in CsrfInputs, sessionId \in Sessions :
          SvcValidate(token, sessionId)
    \/ \E sessionId \in Sessions : SvcRevoke(sessionId)
    \/ SvcRevokeAll
    \/ \E token \in CsrfInputs, sessionId \in Sessions :
          MwValidate(token, sessionId)
    \/ Tick(TOKEN_EXPIRY \div 2) /\ now' <= MaxCsrfTicks * (TOKEN_EXPIRY \div 2)

SpecCsrf == InitCsrf /\ [][NextCsrf]_vars

----------------------------------------------------------------------------
(* Claims about the CSRF token stores *)

\* the store under test still holds the entry the last validation looked up
StillStored ==
    IF underTest = "CSRFProtection"
    THEN CsrfKey(csrfRes.sessionId, csrfRes.token) \in DOMAIN tokens
    ELSE IF underTest = "CSRFService"
    THEN svcKey(csrfRes.sessionId) \in DOMAIN svcTokens
    ELSE CsrfKey(csrfRes.sessionId, csrfRes.token) \in DOMAIN csrfTokens

\* C8: validateToken never returns true for a token whose expiry time
\* (generation time + 1 hour) has passed, whatever calls came before, and an
\* expired token met during validation is removed from the store.
C8_NoExpiredAccepted ==
    (csrfRes # NoRes /\ csrfRes.op = "validateToken") =>
        /\ csrfRes.ret =>
              /\ csrfRes.token \in DOMAIN genTime
              /\ csrfRes.at <= genTime[csrfRes.token] + 3600000
        /\ csrfRes.metExpired => ~StillStored

C8_Witness ==
    /\ csrfRes # NoRes
    /\ underTest = "CSRFProtection"
    /\ csrfRes.op = "validateToken"
    /\ csrfRes.metExpired
    /\ ~csrfRes.ret
    /\ ~StillStored

\* C9: in CSRFProtection a token is single-use: validateToken(t, s) returns
\* true at most once, under any interleaving with generateToken, cleanup and
\* revokeSessionTokens.
C9_SingleUse ==
    \A k \in DOMAIN accepted : accepted[k] <= 1

C9_Witness ==
    /\ csrfRes # NoRes
    /\ csrfRes.op = "validateToken"
    /\ ~csrfRes.ret
    /\ CsrfKey(csrfRes.sessionId, csrfRes.token) \in DOMAIN accepted
    /\ CsrfKey(csrfRes.sessionId, csrfRes.token) \in DOMAIN tokens
    /\ csrfRes.at <= tokens[CsrfKey(csrfRes.sessionId, csrfRes.token)].expires

----------------------------------------------------------------------------
(* sanitizeInput (lib/security) *)
(* A string is a sequence of tokens: "<script>", "</script>", "<", the     *)
(* text "javascript:", "vbscript:", an inline handler such as "onclick=",  *)
(* a blank " ", and any other token is plain text.                         *)

ScriptOpen == "<script>"
ScriptClose == "</script>"

RECURSIVE DropThroughClose(_)
\* what is left after the first </script>
DropThroughClose(str) ==
    IF str = <<>> THEN <<>>
    ELSE IF Head(str) = ScriptClose THEN Tail(str)
    ELSE DropThroughClose(Tail(str))

RECURSIVE removeScripts(_)
\* .replace(/<script\b[^<]*(?:(?!<\/script>)<[^<]*)*<\/script>/gi, ""): a
\* <script is removed up to the first </script> after it, if there is one
removeScripts(str) ==
    IF str = <<>> THEN <<>>
    ELSE IF Head(str) = ScriptOpen
            /\ \E i \in 2..Len(str) : str[i] = ScriptClose
    THEN removeScripts(DropThroughClose(Tail(str)))
    ELSE <<Head(str)>> \o removeScripts(Tail(str))

\* .replace(/javascript:/gi, "").replace(/vbscript:/gi, "")
\* .replace(/on\w+\s*=/gi, "")
removePatterns(str) ==
    SelectSeq(str, LAMBDA tok : tok \notin {"javascript:", "vbscript:", "onclick="})

RECURSIVE trimStart(_)
trimStart(str) ==
    IF str # <<>> /\ Head(str) = " " THEN trimStart(Tail(str)) ELSE str

RECURSIVE trimEnd(_)
trimEnd(str) ==
    IF str # <<>> /\ str[Len(str)] = " "
    THEN trimEnd(SubSeq(str, 1, Len(str) - 1))
    ELSE str

trim(str) == trimEnd(trimStart(str))

\* sanitizeInput of a string
sanitizeString(str) == trim(removePatterns(removeScripts(str)))

RECURSIVE sanitizeEntries(_)
\* sanitizeInput of an object, held as its entries <<key, value>> in order:
\* sanitized[sanitizeInput(key)] = sanitizeInput(value)
sanitizeEntries(entries) ==
    IF entries = <<>> THEN <<>>
    ELSE LET k == sanitizeString(entries[Len(entries)][1])
             v == sanitizeString(entries[Len(entries)][2])
             before == sanitizeEntries(SubSeq(entries, 1, Len(entries) - 1))
         IN IF \E i \in 1..Len(before) : before[i][1] = k
            THEN [i \in 1..Len(before) |->
                     IF before[i][1] = k THEN <<k, v>> ELSE before[i]]
            ELSE Append(before, <<k, v>>)

sanitizeInput(input) == sanitizeEntries(input)

----------------------------------------------------------------------------
(* POST /api/submissions *)

MinCsrfHeaderLength == 10
SubmissionsPerHour == 10
SubmissionsWindow == 3600000

\* data[key] of an object held as its entries; <<>> stands for undefined
\* as for the empty string, both of which the handler takes as missing
Lookup(entries, key) ==
    IF \E i \in 1..Len(entries) : entries[i][1] = key
    THEN entries[CHOOSE i \in 1..Len(entries) : entries[i][1] = key][2]
    ELSE <<>>

\* !data[field.id] || data[field.id].toString().trim() === ""
isMissing(data, field) ==
    \/ Lookup(data, field.id) = <<>>
    \/ trim(Lookup(data, field.id)) = <<>>

missingFields(form, data) ==
    {i \in 1..Len(form.fields) :
        form.fields[i].required /\ isMissing(data, form.fields[i])}

\* SELECT COUNT(*) FROM submissions WHERE ip_address = ? AND
\* created_at > datetime('now', '-1 hour')
recentSubmissions(rows, ip, t) ==
    Cardinality({i \in 1..Len(rows) :
                    rows[i].ip_address = ip
                    /\ rows[i].created_at > t - SubmissionsWindow})

\* the row the handler inserts: JSON.stringify(data) keeps data as it came
insertedRow(req, t) ==
    [form_id |-> req.formId, data |-> req.data,
     ip_address |-> req.forwardedFor, created_at |-> t]

\* postSubmission that skips the required-fields check
postSubmissionNoRequired(rows, req, t) ==
    IF req.csrfLength = 0
    THEN [status |-> 403, error |-> "Token CSRF obrigatorio", rows |-> rows]
    ELSE IF req.csrfLength < MinCsrfHeaderLength
    THEN [status |-> 403, error |-> "Token CSRF invalido", rows |-> rows]
    ELSE IF req.formId = ""
    THEN [status |-> 400, error |-> "Dados invalidos", rows |-> rows]
    ELSE IF req.formId \notin DOMAIN FormsTable
            \/ FormsTable[req.formId].status # "active"
    THEN [status |-> 404, error |-> "Formulario nao encontrado ou inativo",
          rows |-> rows]
    ELSE IF recentSubmissions(rows, req.forwardedFor, t) >= SubmissionsPerHour
    THEN [status |-> 429, error |-> "Muitas submissoes", rows |-> rows]
    ELSE [status |-> 201, error |-> "", rows |-> Append(rows, insertedRow(req, t))]

\* the response of POST /api/submissions and the table it leaves
postSubmission(rows, req, t) ==
    IF req.csrfLength = 0
    THEN [status |-> 403, error |-> "Token CSRF obrigatorio", rows |-> rows]
    ELSE IF req.csrfLength < MinCsrfHeaderLength
    THEN [status |-> 403, error |-> "Token CSRF invalido", rows |-> rows]
    ELSE IF req.formId = ""
    THEN [status |-> 400, error |-> "Dados invalidos", rows |-> rows]
    ELSE IF req.formId \notin DOMAIN FormsTable
            \/ FormsTable[req.formId].status # "active"
    THEN [status |-> 404, error |-> "Formulario nao encontrado ou inativo",
          rows |-> rows]
    ELSE IF missingFields(FormsTable[req.formId], req.data) # {}
    THEN [status |-> 400, error |-> "Campos obrigatorios nao preenchidos",
          rows |-> rows]
    ELSE IF recentSubmissions(rows, req.forwardedFor, t) >= SubmissionsPerHour
    THEN [status |-> 429, error |-> "Muitas submissoes", rows |-> rows]
    ELSE [status |-> 201, error |-> "", rows |-> Append(rows, insertedRow(req, t))]

\* values typed into a field
FieldValues ==
    {<<" ">>, <<"Ann">>, <<" ", "Ann", " ">>,
     <<"<script>", "alert(1)", "</script>", "Ann">>,
     <<"javascript:", "x", "onclick=">>}

\* the data of a submission: the name field, or none, and perhaps a note
SubmittedData ==
    {<<>>}
    \cup {<<<<<<"name">>, v>>>> : v \in FieldValues}
    \cup {<<<<<<"name">>, <<"Ann">>>>, <<<<"note">>, v>>>> :
             v \in {<<"<script>", "no end">>, <<"vbscript:", "x">>}}

\* x-forwarded-for absent gives "unknown"
SubmissionRequests ==
    {r \in [csrfLength : {0, 4, 64}, formId : {"", "f1", "f2", "f9"},
            data : SubmittedData, forwardedFor : {GoodIP, "unknown"}] :
        r.csrfLength < MinCsrfHeaderLength =>
            (r.formId = "f1" /\ r.data = <<>> /\ r.forwardedFor = GoodIP)}

Submit(req) ==
    \E out \in {postSubmission(submissions, req, now)} :
        /\ submissions' = out.rows
        /\ subRes' = [req |-> req, status |-> out.status, error |-> out.error]
        /\ UNCHANGED <<now, mwVars, csrfTokens, nextToken, csrfVars, libVars>>

NextSub ==
    \E req \in SubmissionRequests :
        Submit(req) /\ Len(submissions') <= MaxRows

SpecSub == Init /\ [][NextSub]_vars

----------------------------------------------------------------------------
(* Claims about POST /api/submissions *)

\* C10: when a submission is accepted, the data written to the submissions
\* table is the sanitized form of the submitted data (script tags,
\* javascript:/vbscript: and inline event handlers removed), never the raw
\* input.
C10_StoredSanitized ==
    (subRes # NoRes /\ subRes.status = 201) =>
        submissions[Len(submissions)].data = sanitizeInput(subRes.req.data)

\* the form a request names exists with status 'active'
FormActive(req) ==
    /\ req.formId \in DOMAIN FormsTable
    /\ FormsTable[req.formId].status = "active"

\* every field marked required has a non-blank value in the data
RequiredPresent(req) ==
    FormActive(req) /\ missingFields(FormsTable[req.formId], req.data) = {}

\* the request got past the x-csrf-token header checks and the body schema
PassedEarlierChecks(req) ==
    req.csrfLength >= MinCsrfHeaderLength /\ req.formId # ""

----------------------------------------------------------------------------
(* FormExporter (lib/form-exporter) *)
(* A string is a sequence of characters.  The exported document is the     *)
(* sequence of the template's interpolations, in document order: each one  *)
(* names its slot, the string it was given and the text it put in the      *)
(* document.                                                               *)

RECURSIVE escapeHtml(_)
\* div.textContent = text; return div.innerHTML: &, < and > become entities,
\* quotes stay as they are
escapeHtml(text) ==
    IF text = <<>> THEN <<>>
    ELSE (CASE Head(text) = "&" -> <<"&", "a", "m", "p", ";">>
            [] Head(text) = "<" -> <<"&", "l", "t", ";">>
            [] Head(text) = ">" -> <<"&", "g", "t", ";">>
            [] OTHER -> <<Head(text)>>)
         \o escapeHtml(Tail(text))

\* ${this.escapeHtml(x)}
Escaped(slot, text) == [slot |-> slot, given |-> text, text |-> escapeHtml(text)]

\* ${x}
Inserted(slot, text) == [slot |-> slot, given |-> text, text |-> text]

\* a part of the template that holds nothing of the form
Template(name) == [slot |-> "template", given |-> <<>>, text |-> <<name>>]

RECURSIVE Flatten(_)
\* .join("")
Flatten(seqs) ==
    IF seqs = <<>> THEN <<>> ELSE Head(seqs) \o Flatten(Tail(seqs))

FieldIdPiece(field) == Inserted("field.id", field.id)

\* field.placeholder || fallback
PlaceholderPiece(field, fallback) ==
    Escaped("field.placeholder",
            IF field.placeholder # <<>> THEN field.placeholder ELSE fallback)

selectOptions(field) ==
    Flatten([i \in 1..Len(field.options) |->
                <<Escaped("option", field.options[i]),
                  Escaped("option", field.options[i])>>])

radioOptions(field) ==
    Flatten([i \in 1..Len(field.options) |->
                <<FieldIdPiece(field), FieldIdPiece(field),
                  Escaped("option", field.options[i]),
                  FieldIdPiece(field),
                  Escaped("option", field.options[i])>>])

generateFieldHTML(field) ==
    LET id == FieldIdPiece(field)
        label == Escaped("field.label", field.label)
        type == Inserted("field.type", field.type)
    IN
    CASE field.type \in {<<"text">>, <<"email">>, <<"phone">>} ->
            <<type, id, label>>
            \o (IF field.type = <<"phone">> THEN <<Template("tel")>> ELSE <<type>>)
            \o <<id, id, PlaceholderPiece(field, <<>>), type, id>>
      [] field.type = <<"cep">> ->
            <<id, label, id, id, id,
              PlaceholderPiece(field, <<"Ex: 12345-678">>), id>>
      [] field.type = <<"cnpj">> ->
            <<id, label, id, id, id,
              PlaceholderPiece(field, <<"Ex: 12.345.678/0001-90">>), id>>
      [] field.type = <<"textarea">> ->
            <<id, label, id, id, PlaceholderPiece(field, <<>>), id>>
      [] field.type = <<"select">> ->
            <<id, label, id, id>> \o selectOptions(field) \o <<id>>
      [] field.type = <<"radio">> ->
            <<label>> \o radioOptions(field) \o <<id>>
      [] field.type = <<"checkbox">> -> <<id, id, id, label, id>>
      [] field.type = <<"date">> -> <<id, label, id, id, id>>
      [] OTHER -> <<type>>

generateFormHTML(form) ==
    Flatten([i \in 1..Len(form.fields) |-> generateFieldHTML(form.fields[i])])

getSubmitJS(submitUrl) ==
    IF submitUrl # <<>>
    THEN <<Template("validateForm"), Inserted("submitUrl", submitUrl)>>
    ELSE <<Template("console.log")>>

generateJavaScript(form, options) ==
    (IF options.includeValidation THEN <<Template("validationJS")>> ELSE <<>>)
    \o (IF options.includeAutoFill THEN <<Template("autoFillJS")>> ELSE <<>>)
    \o getSubmitJS(options.submitUrl)
    \o (IF options.includeValidation
        THEN <<Template("initializeValidation")>> ELSE <<>>)
    \o (IF options.includeAutoFill
        THEN <<Template("initializeAutoFill")>> ELSE <<>>)

generateCSS(theme) ==
    <<Template("baseCSS")>>
    \o (IF theme = "dark" THEN <<Template("darkThemeCSS")>> ELSE <<>>)

generateHTMLTemplate(form, options) ==
    <<Escaped("title", form.title)>>
    \o (IF options.includeBootstrap THEN <<Template("bootstrapCSS")>> ELSE <<>>)
    \o (IF options.includeCSS THEN generateCSS(options.theme) ELSE <<>>)
    \o <<Escaped("title", form.title)>>
    \o (IF form.description # <<>>
        THEN <<Escaped("description", form.description)>> ELSE <<>>)
    \o generateFormHTML(form)
    \o generateJavaScript(form, options)

exportAsHTML(form, options) == generateHTMLTemplate(form, options)

\* strings a form's author can type: plain, markup, and one with & and a quote
Plain == <<"a">>
Markup == <<"<", "i", ">">>
Quoted == <<"\"", "&">>

FieldTypes ==
    {<<"text">>, <<"email">>, <<"phone">>, <<"cep">>, <<"cnpj">>,
     <<"textarea">>, <<"select">>, <<"radio">>, <<"checkbox">>, <<"date">>,
     <<"file">>, Markup}

ExportFields ==
    {f \in [id : {Plain, Markup}, type : FieldTypes, label : {Plain, Quoted},
            placeholder : {<<>>, Markup}, required : {FALSE},
            options : {<<>>, <<Plain, Markup>>}] :
        f.options # <<>> => f.type \in {<<"select">>, <<"radio">>}}

ExportForms ==
    [title : {Plain, Markup}, description : {<<>>, Quoted},
     fields : {<<>>} \cup {<<f>> : f \in ExportFields}]

ExportOptions ==
    [includeValidation : BOOLEAN, includeAutoFill : BOOLEAN,
     includeCSS : BOOLEAN, includeBootstrap : BOOLEAN,
     submitUrl : {<<>>, Plain, Quoted}, theme : {"default", "dark"}]

NotExported == <<>>

\* a form and the export options chosen for it, before the export
InitExport ==
    /\ ServerInit
    /\ LimiterInit
    /\ AutoFillInit
    /\ AuthInit
    /\ exported \in [form : ExportForms, options : ExportOptions,
                     html : {NotExported}]

Export ==
    /\ exported # NoRes
    /\ exported.html = NotExported
    /\ exported' =
          [exported EXCEPT !.html = exportAsHTML(exported.form, exported.options)]
    /\ UNCHANGED <<now, mwVars, csrfTokens, nextToken, csrfVars, subVars,
                   limiterVars, autoVars, authVars>>

NextExport == Export

SpecExport == InitExport /\ [][NextExport]_vars

\* the slots that hold a string of the form or of the options
FormSupplied ==
    {"title", "description", "field.label", "field.placeholder", "option",
     "field.id", "field.type", "submitUrl"}

\* C12: every form-supplied string placed into the exported HTML document
\* (title, description, field label, placeholder, option text, field id,
\* field type and submitUrl) passes through escapeHtml before it is inserted,
\* for every field type and every combination of export options.
C12_AllEscaped ==
    (exported # NoRes /\ exported.html # NotExported) =>
        \A i \in 1..Len(exported.html) :
            exported.html[i].slot \in FormSupplied =>
                exported.html[i].text = escapeHtml(exported.html[i].given)

----------------------------------------------------------------------------
(* RateLimiter (lib/security) *)

MaxLimiterCalls == 7
MaxLimiterTicks == 3

RegisterPath == <<"api", "auth", "register">>
FormsRoute == <<"api", "forms">>
ExportPath == <<"api", "export">>
DefaultConfig == <<"default">>

\* configs: endpoint -> {requests, window}
configs ==
    (SubmissionsPath :> [requests |-> 5, window |-> 60000])
    @@ (LoginPath :> [requests |-> 3, window |-> 900000])
    @@ (RegisterPath :> [requests |-> 2, window |-> 3600000])
    @@ (FormsRoute :> [requests |-> 10, window |-> 60000])
    @@ (DefaultConfig :> [requests |-> 100, window |-> 60000])

\* this.configs[endpoint] || this.configs.default
configOf(endpoint) ==
    IF endpoint \in DOMAIN configs THEN configs[endpoint]
    ELSE configs[DefaultConfig]

BlockedCount == 999999

\* checkLimit whose denied call starts the window again
checkLimitSliding(map, ip, endpoint, t) ==
    LET key == RateLimitKey(ip, endpoint)
        config == configOf(endpoint)
        entry == MapGet(map, key)
    IN
    IF entry = NoEntry \/ t >= entry.resetTime
    THEN [limits |-> MapSet(map, key,
                            [count |-> 1, resetTime |-> t + config.window,
                             blocked |-> FALSE]),
          allowed |-> TRUE, remaining |-> config.requests - 1]
    ELSE IF entry.count + 1 > config.requests
    THEN [limits |-> MapSet(map, key,
                            [count |-> entry.count + 1,
                             resetTime |-> t + config.window,
                             blocked |-> TRUE]),
          allowed |-> FALSE, remaining |-> 0]
    ELSE [limits |-> MapSet(map, key,
                            [entry EXCEPT !.count = entry.count + 1]),
          allowed |-> TRUE,
          remaining |-> config.requests - (entry.count + 1)]

\* what checkLimit returns and the map it leaves
checkLimit(map, ip, endpoint, t) ==
    LET key == RateLimitKey(ip, endpoint)
        config == configOf(endpoint)
        entry == MapGet(map, key)
    IN
    IF entry = NoEntry \/ t >= entry.resetTime
    THEN [limits |-> MapSet(map, key,
                            [count |-> 1, resetTime |-> t + config.window,
                             blocked |-> FALSE]),
          allowed |-> TRUE, remaining |-> config.requests - 1]
    ELSE IF entry.count + 1 > config.requests
    THEN [limits |-> MapSet(map, key,
                            [entry EXCEPT !.count = entry.count + 1,
                                          !.blocked = TRUE]),
          allowed |-> FALSE, remaining |-> 0]
    ELSE [limits |-> MapSet(map, key,
                            [entry EXCEPT !.count = entry.count + 1]),
          allowed |-> TRUE,
          remaining |-> config.requests - (entry.count + 1)]

\* the map blockIP leaves: one entry per key of configs
blockIP(map, ip, duration, t) ==
    LET blockedKeys == {RateLimitKey(ip, e) : e \in DOMAIN configs} IN
    [k \in DOMAIN map \cup blockedKeys |->
        IF k \in blockedKeys
        THEN [count |-> BlockedCount, resetTime |-> t + duration,
              blocked |-> TRUE]
        ELSE map[k]]

\* the map cleanup leaves
cleanup(map, t) ==
    [k \in {j \in DOMAIN map : ~(t >= map[j].resetTime /\ ~map[j].blocked)}
        |-> map[k]]

\* the callers' addresses and the endpoints they name; `${ip}:${endpoint}`
\* of the second address with ExportPath is that of the first address with
\* the last endpoint
LimiterIPs == {<<GoodIP>>, <<GoodIP, ":">> \o FormsRoute}
LimiterEndpoints ==
    {SubmissionsPath, ExportPath, FormsRoute \o <<":">> \o ExportPath}
LimiterPairs ==
    {p \in LimiterIPs \X LimiterEndpoints :
        p[1] # <<GoodIP>> => p[2] = ExportPath}
Durations == {TickStep, RateLimitWindow}

\* a call, its result, and the entry it found under its key
LimiterCall(op, ip, endpoint, allowed, found) ==
    [op |-> op, ip |-> ip, endpoint |-> endpoint, allowed |-> allowed,
     at |-> now, found |-> found]

limiterOthers ==
    <<now, mwVars, csrfTokens, nextToken, csrfVars, subVars, exported,
      autoVars, authVars>>

CheckLimit(ip, endpoint) ==
    /\ underTest = "RateLimiter"
    /\ \E out \in {checkLimit(limits, ip, endpoint, now)} :
          /\ limits' = out.limits
          /\ limRes' = LimiterCall("checkLimit", ip, endpoint, out.allowed,
                                   MapGet(limits, RateLimitKey(ip, endpoint)))
    /\ limCalls' = limCalls + 1
    /\ UNCHANGED <<limiterOthers, blockedUntil>>

BlockIP(ip, duration) ==
    /\ underTest = "RateLimiter"
    /\ limits' = blockIP(limits, ip, duration, now)
    /\ limRes' = LimiterCall("blockIP", ip, <<>>, FALSE, NoEntry)
    /\ blockedUntil' =
          MapSet(blockedUntil, ip,
                 IF ip \in DOMAIN blockedUntil /\ blockedUntil[ip] > now + duration
                 THEN blockedUntil[ip] ELSE now + duration)
    /\ limCalls' = limCalls + 1
    /\ UNCHANGED limiterOthers

LimiterCleanup ==
    /\ underTest = "RateLimiter"
    /\ limits' = cleanup(limits, now)
    /\ limRes' = LimiterCall("cleanup", <<>>, <<>>, FALSE, NoEntry)
    /\ limCalls' = limCalls + 1
    /\ UNCHANGED <<limiterOthers, blockedUntil>>

\* a run on the RateLimiter class, or on the middleware's checkRateLimit
InitLimiter ==
    /\ now = 0
    /\ rateLimitMap = EmptyMap
    /\ csrfTokens = EmptyMap
    /\ routeCsrfTokens = EmptyMap
    /\ nextToken = 1
    /\ res = NoRes
    /\ window = EmptyMap
    /\ underTest \in {"RateLimiter", "checkRateLimit"}
    /\ tokens = EmptyMap
    /\ svcTokens = EmptyMap
    /\ csrfRes = NoRes
    /\ genTime = EmptyMap
    /\ accepted = EmptyMap
    /\ submissions = <<>>
    /\ subRes = NoRes
    /\ LibInit

NextLimiter ==
    \/ \E p \in LimiterPairs :
          CheckLimit(p[1], p[2]) /\ limCalls < MaxLimiterCalls
    \/ \E duration \in Durations :
          BlockIP(<<GoodIP>>, duration) /\ limCalls < MaxLimiterCalls
    \/ LimiterCleanup /\ limCalls < MaxLimiterCalls
    \/ \E req \in RateRequests :
          /\ underTest = "checkRateLimit"
          /\ Request(req)
          /\ SumCounts(rateLimitMap') <= MaxLimiterCalls
    \/ Tick(TickStep) /\ now' <= MaxLimiterTicks * TickStep

SpecLimiter == InitLimiter /\ [][NextLimiter]_vars

----------------------------------------------------------------------------
(* Claims about the rate limiters *)

\* the last call on the RateLimiter was a checkLimit
LastCheckLimit == limRes # NoRes /\ limRes.op = "checkLimit"

LimResKey == RateLimitKey(limRes.ip, limRes.endpoint)

\* C13: after RateLimiter.blockIP(ip, duration), every checkLimit(ip,
\* endpoint) call, for any endpoint, returns allowed = false until duration
\* milliseconds have elapsed.
C13_BlockedDenied ==
    (/\ LastCheckLimit
     /\ limRes.ip \in DOMAIN blockedUntil
     /\ limRes.at < blockedUntil[limRes.ip]) => ~limRes.allowed

\* C14: after RateLimiter.cleanup() runs, the limits map holds no expired
\* entry, i.e. no entry whose resetTime is at or before the current time,
\* whatever checkLimit and blockIP calls came before.
C14_CleanupLeavesNoExpired ==
    (limRes # NoRes /\ limRes.op = "cleanup" /\ limRes.at = now) =>
        \A k \in DOMAIN limits : limits[k].resetTime > now

\* C15: a rate-limit check for (ip, endpoint) reads and writes only that
\* pair's entry: the count and the resetTime, and with them the allow/deny
\* outcome, of every other (ip', endpoint') pair are unchanged by it.
C15_OtherPairsUnchanged ==
    [][(limCalls' # limCalls /\ limRes'.op = "checkLimit") =>
          \A p \in LimiterPairs :
              p # <<limRes'.ip, limRes'.endpoint>> =>
                  MapGet(limits', RateLimitKey(p[1], p[2]))
                      = MapGet(limits, RateLimitKey(p[1], p[2]))]_vars

\* C16 for one call: key is the call's key, old and new the maps before and
\* after it, denied its outcome, length the window of its endpoint
NoSlidingWindow(key, old, new, denied, length) ==
    /\ denied =>
          /\ key \in DOMAIN old
          /\ new[key].resetTime = old[key].resetTime
    /\ (key \in DOMAIN old /\ now >= old[key].resetTime) =>
          /\ ~denied
          /\ new[key].count = 1
          /\ new[key].resetTime = now + length

\* C16: a denied rate-limit call does not move resetTime, and the first call
\* made at or after resetTime is allowed and starts a new window with count
\* 1, in the RateLimiter's checkLimit as in the middleware's checkRateLimit.
C16_DeniedKeepsResetTime ==
    [][/\ (limCalls' # limCalls /\ limRes'.op = "checkLimit") =>
             NoSlidingWindow(RateLimitKey(limRes'.ip, limRes'.endpoint),
                             limits, limits', ~limRes'.allowed,
                             configOf(limRes'.endpoint).window)
       /\ rateLimitMap' # rateLimitMap =>
             NoSlidingWindow(RateLimitKey(<<res'.req.ip>>, res'.req.path),
                             rateLimitMap, rateLimitMap',
                             res'.limited = "denied", RateLimitWindow)]_vars

\* a caller that was over the limit is allowed at the end of that window
C16_Witness ==
    /\ LastCheckLimit
    /\ limRes.found # NoEntry
    /\ limRes.found.count > configOf(limRes.endpoint).requests
    /\ limRes.found.count < BlockedCount
    /\ limRes.at >= limRes.found.resetTime
    /\ limRes.allowed
    /\ limits[LimResKey].count = 1

----------------------------------------------------------------------------
(* Claims about the order of the middleware's checks *)

EarlyRejections == {"Access denied", "Suspicious activity detected"}
LateRejections ==
    {"CSRF token required", "Invalid CSRF token", "Authentication required",
     "Invalid token"}

\* C17: the middleware runs its checks in the order blocked IP, suspicious
\* user agent, rate limit, CSRF, authentication, and stops at the first
\* failure: a request rejected as blocked IP or suspicious user agent leaves
\* rateLimitMap unchanged, while a request later rejected for a missing or
\* invalid CSRF token or auth token has already been counted against the
\* rate limit.
C17_RejectedAfterCounting ==
    [][now' = now =>
          /\ res'.error \in EarlyRejections => rateLimitMap' = rateLimitMap
          /\ res'.error \in LateRejections =>
                /\ res'.limited = "allowed"
                /\ rateLimitMap' # rateLimitMap]_vars

----------------------------------------------------------------------------
(* CSRFProtection: the tokens held per session *)

MaxCapTokens == 12

\* three sessions, the first one's id followed by a colon beginning the
\* other two
CapSessions == {<<"s1">>, <<"s1", "a">>, <<"s1", "b">>}

\* the calls before the run starts: at time 0 the second session calls
\* generateToken five times and the third session once
SeedCalls ==
    <<<<"s1", "a">>, <<"s1", "a">>, <<"s1", "a">>, <<"s1", "a">>,
      <<"s1", "a">>, <<"s1", "b">>>>

RECURSIVE StoreAfter(_)
\* the store after the first n of these calls
StoreAfter(n) ==
    IF n = 0 THEN EmptyMap
    ELSE generateToken(StoreAfter(n - 1), SeedCalls[n], n, 0)

InitCap ==
    /\ now = 0
    /\ rateLimitMap = EmptyMap
    /\ csrfTokens = EmptyMap
    /\ routeCsrfTokens = EmptyMap
    /\ nextToken = Len(SeedCalls) + 1
    /\ res = NoRes
    /\ window = EmptyMap
    /\ underTest = "CSRFProtection"
    /\ tokens = StoreAfter(Len(SeedCalls))
    /\ svcTokens = EmptyMap
    /\ csrfRes = NoRes
    /\ genTime = [n \in 1..Len(SeedCalls) |-> 0]
    /\ accepted = EmptyMap
    /\ submissions = <<>>
    /\ subRes = NoRes
    /\ LibInit

NextCap ==
    \/ \E sessionId \in CapSessions :
          Generate(sessionId) /\ nextToken <= MaxCapTokens
    \/ \E token \in {1, Len(SeedCalls) + 1}, sessionId \in CapSessions :
          Validate(token, sessionId)
    \/ Cleanup

SpecCap == InitCap /\ [][NextCap]_vars

\* the tokens stored for a session
TokensOf(sessionId) == {k \in DOMAIN tokens : k[1] = sessionId}

\* C18: in CSRFProtection, after any sequence of generateToken,
\* validateToken and cleanup calls, the number of tokens stored for one
\* session never exceeds MAX_TOKENS_PER_SESSION (5).
C18_AtMostFivePerSession ==
    \A sessionId \in CapSessions :
        Cardinality(TokensOf(sessionId)) <= MAX_TOKENS_PER_SESSION

----------------------------------------------------------------------------
(* AutoFillService (lib/auto-fill) *)
(* A string is a sequence of characters.  A call of fetchCEPData or        *)
(* fetchCNPJData runs to its first await in one step; the answer of the    *)
(* external API to a request, with what follows it in performCEPRequest    *)
(* and in the finally block of the call that sent it, is another step.     *)

MaxRequests == 3

DigitChars == <<"0", "1", "2", "3", "4", "5", "6", "7", "8", "9">>
Digits == {DigitChars[i] : i \in 1..10}

\* Number.parseInt of a digit
DigitValue(c) == (CHOOSE i \in 1..10 : DigitChars[i] = c) - 1

\* .replace(/\D/g, "")
cleanDigits(text) == SelectSeq(text, LAMBDA c : c \in Digits)

RECURSIVE WeightedSum(_, _, _)
\* sum += Number.parseInt(cnpj[i]) * weight; weight = weight === 2 ? 9 : weight - 1
WeightedSum(cnpj, count, weight) ==
    IF count = 0 THEN 0
    ELSE DigitValue(Head(cnpj)) * weight
         + WeightedSum(Tail(cnpj), count - 1,
                       IF weight = 2 THEN 9 ELSE weight - 1)

\* sum % 11 < 2 ? 0 : 11 - (sum % 11)
CheckDigit(sum) == IF sum % 11 < 2 THEN 0 ELSE 11 - (sum % 11)

validateCNPJ(cnpj) ==
    /\ Len(cnpj) = 14
    /\ ~(\A i \in 1..14 : cnpj[i] = cnpj[1])
    /\ DigitValue(cnpj[13]) = CheckDigit(WeightedSum(cnpj, 12, 5))
    /\ DigitValue(cnpj[14]) = CheckDigit(WeightedSum(cnpj, 13, 6))

\* `cep-${cleanCep}` and `cnpj-${cleanCnpj}`
QueueKey(kind, number) == <<kind, number>>

\* how a call with a well-formed number is served: from the cache, by the
\* request already in progress, or by a new network request
servedBy(cache, queue, kind, number) ==
    IF number \in DOMAIN cache THEN "cache"
    ELSE IF QueueKey(kind, number) \in DOMAIN queue THEN "pending"
    ELSE "network"

\* the cache that caches only the numbers the API knows
cacheAfterFoundOnly(cache, number, answer) ==
    IF answer = "found" THEN MapSet(cache, number, answer) ELSE cache

\* the cache after the API's answer: a response that is not ok, a timeout
\* or a network error ("failed") caches nothing
cacheAfter(cache, number, answer) ==
    IF answer \in {"found", "notfound"} THEN MapSet(cache, number, answer)
    ELSE cache

CepPlain == <<"0", "1", "0", "0", "1", "0", "0", "0">>
CepDashed == <<"0", "1", "0", "0", "1", "-", "0", "0", "0">>
CepOther == <<"2", "0", "0", "4", "0", "0", "2", "0">>
CepShort == <<"0", "1", "0", "0", "1", "0", "0">>
CepInputs == {CepPlain, CepDashed, CepOther, CepShort}

CnpjPlain ==
    <<"1", "1", "2", "2", "2", "3", "3", "3", "0", "0", "0", "1", "8", "1">>
CnpjFormatted ==
    <<"1", "1", ".", "2", "2", "2", ".", "3", "3", "3", "/", "0", "0", "0",
      "1", "-", "8", "1">>
CnpjBadDigits ==
    <<"1", "1", "2", "2", "2", "3", "3", "3", "0", "0", "0", "1", "8", "2">>
CnpjInputs == {CnpjPlain, CnpjFormatted, CnpjBadDigits}

Answers == {"found", "notfound", "failed"}

autoOthers ==
    <<now, mwVars, csrfTokens, nextToken, csrfVars, subVars, exported,
      limiterVars, authVars>>

AutoCall(op, input, number, served) ==
    [op |-> op, input |-> input, number |-> number, served |-> served,
     answeredBefore |-> QueueKey(IF op = "fetchCEPData" THEN "cep" ELSE "cnpj",
                                 number) \in answered]

\* the part of a call after the format checks, on the cache of its kind
ServeCall(op, kind, cache, input, number) ==
    \E served \in {servedBy(cache, requestQueue, kind, number)} :
        /\ autoRes' = AutoCall(op, input, number, served)
        /\ IF served = "network"
           THEN /\ inFlight' =
                      inFlight \cup {[id |-> nextRequest,
                                      key |-> QueueKey(kind, number)]}
                /\ requestQueue' =
                      MapSet(requestQueue, QueueKey(kind, number), nextRequest)
                /\ nextRequest' = nextRequest + 1
           ELSE UNCHANGED <<inFlight, requestQueue, nextRequest>>

FetchCEPData(cep) ==
    /\ LET cleanCep == cleanDigits(cep) IN
       IF Len(cleanCep) # 8
       THEN /\ autoRes' = AutoCall("fetchCEPData", cep, cleanCep, "invalid")
            /\ UNCHANGED <<inFlight, requestQueue, nextRequest>>
       ELSE ServeCall("fetchCEPData", "cep", cepCache, cep, cleanCep)
    /\ UNCHANGED <<autoOthers, cepCache, cnpjCache, answered>>

FetchCNPJData(cnpj) ==
    /\ LET cleanCnpj == cleanDigits(cnpj) IN
       IF Len(cleanCnpj) # 14 \/ ~validateCNPJ(cleanCnpj)
       THEN /\ autoRes' = AutoCall("fetchCNPJData", cnpj, cleanCnpj, "invalid")
            /\ UNCHANGED <<inFlight, requestQueue, nextRequest>>
       ELSE ServeCall("fetchCNPJData", "cnpj", cnpjCache, cnpj, cleanCnpj)
    /\ UNCHANGED <<autoOthers, cepCache, cnpjCache, answered>>

\* the API answers request r: the answer is cached, and the finally block of
\* the call that sent r deletes the key of r from requestQueue
Respond(r, answer) ==
    /\ r \in inFlight
    /\ cepCache' =
          IF r.key[1] = "cep" THEN cacheAfter(cepCache, r.key[2], answer)
          ELSE cepCache
    /\ cnpjCache' =
          IF r.key[1] = "cnpj" THEN cacheAfter(cnpjCache, r.key[2], answer)
          ELSE cnpjCache
    /\ answered' = IF answer = "failed" THEN answered ELSE answered \cup {r.key}
    /\ inFlight' = inFlight \ {r}
    /\ requestQueue' = MapDelete(requestQueue, r.key)
    /\ UNCHANGED <<autoOthers, nextRequest, autoRes>>

ClearCache ==
    /\ cepCache' = EmptyMap
    /\ cnpjCache' = EmptyMap
    /\ requestQueue' = EmptyMap
    /\ answered' = {}
    /\ UNCHANGED <<autoOthers, inFlight, nextRequest, autoRes>>

NextAuto ==
    \/ \E cep \in CepInputs :
          FetchCEPData(cep) /\ nextRequest' <= MaxRequests + 1
    \/ \E cnpj \in CnpjInputs :
          FetchCNPJData(cnpj) /\ nextRequest' <= MaxRequests + 1
    \/ \E r \in inFlight, answer \in Answers : Respond(r, answer)
    \/ ClearCache

SpecAuto == Init /\ [][NextAuto]_vars

----------------------------------------------------------------------------
(* Claims about AutoFillService *)

\* C19: once a CEP lookup has received an answer from the external API
\* (found or not found), every later fetchCEPData call for the same 8
\* digits, however the input is formatted, is answered from the cache
\* without a new network request, until clearCache is called.
C19_AnsweredFromCache ==
    (autoRes # NoRes /\ autoRes.op = "fetchCEPData" /\ autoRes.answeredBefore)
        => autoRes.served = "cache"

\* a CEP the API did not know, asked for again with a dash in it
C19_Witness ==
    /\ autoRes # NoRes
    /\ autoRes.op = "fetchCEPData"
    /\ autoRes.answeredBefore
    /\ autoRes.input = CepDashed
    /\ autoRes.served = "cache"
    /\ autoRes.number \in DOMAIN cepCache
    /\ cepCache[autoRes.number] = "notfound"
    /\ nextRequest = 2

\* C20: at every moment there is at most one network request in flight per
\* CEP and per CNPJ, under any interleaving of fetchCEPData/fetchCNPJData
\* calls and clearCache.
C20_OneRequestInFlight ==
    \A r1 \in inFlight, r2 \in inFlight : r1.key = r2.key => r1 = r2

----------------------------------------------------------------------------
(* POST /api/auth/login, POST /api/auth/logout and the protected routes *)

\* SpecAuth: the requests counted by checkRateLimit, the window halves passed
MaxAuthCalls == 3
MaxAuthTicks == 1

LogoutPath == <<"api", "auth", "logout">>

\* the token jwt.sign returns for the user: it is signed with JWT_SECRET and
\* expires after seven days, so jwt.verify accepts it throughout a run
SignedToken == "jwt_ok"

Credentials == {"valid", "unknown-email", "wrong-password"}

\* POST /api/auth/login: the answer and the sessions table it leaves
login(table, credentials) ==
    IF credentials = "valid"
    THEN [table |-> table \cup {SignedToken}, status |-> 200,
          cookie |-> SignedToken]
    ELSE [table |-> table, status |-> 401, cookie |-> NoCookie]

\* POST /api/auth/logout: DELETE FROM sessions WHERE token = ?, then the
\* answer that clears the cookie in the browser
logout(table, token) ==
    [table |-> IF token # NoCookie THEN table \ {token} ELSE table,
     status |-> 200,
     cookie |-> NoCookie]

\* the login handler runs; the token of a login is issued once, a login in
\* another second signs another iat
Login(credentials) ==
    /\ credentials = "valid" => SignedToken \notin sessions \cup loggedOut
    /\ \E out \in {login(sessions, credentials)} :
          /\ sessions' = out.table
          /\ authRes' = [op |-> "login", status |-> out.status,
                         cookie |-> out.cookie]
    /\ UNCHANGED <<now, mwVars, csrfTokens, nextToken, csrfVars, subVars,
                   exported, limiterVars, autoVars, loggedOut>>

LogoutRequests ==
    {r \in [method : {"POST"}, path : {LogoutPath}, ip : {GoodIP, "0.0.0.0"},
            ua : {Browser}, csrf : {NoToken}, cookie : Cookies] :
        isIPBlocked(r.ip) => r.cookie = SignedToken}

\* a logout request: the middleware, which neither counts it nor asks for a
\* CSRF token on this path, then the handler when the middleware passes it
Logout(req) ==
    \E mw \in {middleware(req, [allowed |-> TRUE], FALSE)},
       out \in {logout(sessions, req.cookie)} :
    /\ res' = [req |-> req,
               limited |-> "skipped",
               next |-> mw.next,
               status |-> IF mw.next THEN out.status ELSE mw.status,
               error |-> mw.error,
               headers |-> mw.headers,
               body |-> IF mw.next THEN [success |-> TRUE]
                        ELSE [error |-> mw.error]]
    /\ sessions' = IF mw.next THEN out.table ELSE sessions
    /\ loggedOut' =
          IF mw.next /\ req.cookie # NoCookie
          THEN loggedOut \cup {req.cookie} ELSE loggedOut
    /\ authRes' =
          IF mw.next
          THEN [op |-> "logout", status |-> out.status, cookie |-> out.cookie]
          ELSE authRes
    /\ UNCHANGED <<now, rateLimitMap, routeCsrfTokens, window, csrfTokens,
                   nextToken, csrfVars, subVars, exported, limiterVars,
                   autoVars>>

\* the requests of the session runs: one browser reading the protected routes
AuthRequests ==
    {r \in Requests :
        /\ r.ip = GoodIP /\ r.ua = Browser /\ r.method = "GET"
        /\ r.path \in {FormPath, DashboardPath}}

NextAuth ==
    \/ \E credentials \in Credentials : Login(credentials)
    \/ \E req \in LogoutRequests : Logout(req)
    \/ \E req \in AuthRequests :
          /\ Request(req)
          /\ SumCounts(rateLimitMap') <= MaxAuthCalls
    \/ Tick(TickStep) /\ now' <= MaxAuthTicks * TickStep

SpecAuth == Init /\ [][NextAuth]_vars

\* C21: once POST /api/auth/logout has been processed for an auth token, a
\* later request to a protected route that presents that token is not passed
\* on and is answered 401.
C21_LoggedOutRejected ==
    (Protected /\ res.req.cookie \in loggedOut) =>
        (~res.next /\ res.status = 401)

====
